---- MODULE Spec2Model ----
(***************************************************************************)
(* Model of .github/workflows/check_files_submitted.py: a command-line     *)
(* check that runs `git diff --name-only origin/<base>...<pr>`, splits the *)
(* captured standard output into lines and exits with code 1 when more     *)
(* than 20 lines were found.                                               *)
(*                                                                         *)
(* Text is a sequence of one-character strings.  What the program writes   *)
(* to its standard output is the sequence of the texts it printed.         *)
(***************************************************************************)
EXTENDS Integers, Sequences, FiniteSets, TLC

VARIABLES
    argv,             \* the command line (sys.argv[1:])
    pc,               \* position of the process in main()
    run,              \* 1 for the first invocation, 2 for the repeated one
    outcome,          \* what the diff tool does when it is launched
    proc,             \* the subprocess: "none", "running", "exited"
    nCalls,           \* calls of get_changed_files in this run
    nSpawns,          \* subprocess.Popen invocations in this run
    args,             \* the parsed arguments (base_branch, pr_branch)
    git_diff_output,  \* captured standard output of the tool
    git_diff_error,   \* captured standard error of the tool
    exc,              \* the exception in flight inside the try block
    changed_files,    \* the list get_changed_files returned
    stdout,           \* the texts written to standard output, in order
    stderr,           \* the texts written to standard error, in order
    exit_code,        \* the process exit code, NoCode while running
    uncaught,         \* an exception escaped main()
    prev              \* the result of the first invocation

vars == <<argv, pc, run, outcome, proc, nCalls, nSpawns, args, git_diff_output,
          git_diff_error, exc, changed_files, stdout, stderr, exit_code,
          uncaught, prev>>

-----------------------------------------------------------------------------
(* Bounds of the model *)

\* the tool emits at most Limit + MaxExtra lines
MaxExtra == 2
\* the first MaxVaried emitted paths are drawn freely from Paths
MaxVaried == 2
\* the command line holds at most MaxArgs tokens
MaxArgs == 3

(* Program constants *)

\* the threshold of main(): `if len(changed_files) > 20`
Limit == 20
\* exit code of argparse's ArgumentParser.error
ParserErrorCode == 2

NoCode == -1

-----------------------------------------------------------------------------
(* Text *)

NL == "\n"
CR == "\r"
\* U+2028 LINE SEPARATOR: legal in a file name, and printed verbatim by
\* `git diff --name-only` when core.quotePath is false
LS == "U+2028"

\* the characters str.splitlines() treats as line boundaries
LineBoundaries ==
    {NL, CR, "\f", "U+000B", "U+001C", "U+001D", "U+001E", "U+0085", LS, "U+2029"}

ErrPrefix == <<"E", "r", "r", "o", "r", ":", " ">>

OverLimitMsg ==
    <<"N", "u", "m", "b", "e", "r", " ", "o", "f", " ",
      "c", "h", "a", "n", "g", "e", "d", " ", "f", "i", "l", "e", "s", " ",
      "e", "x", "c", "e", "e", "d", "s", " ", "2", "0", ".">>

\* stands for the help text argparse prints for -h
HelpText == <<"u", "s", "a", "g", "e", ":", " ", "-", "h">>
\* stands for the usage error argparse writes to standard error
UsageError == <<"u", "s", "a", "g", "e", ":", " ", "e", "r", "r", "o", "r">>

RECURSIVE TranslateFrom(_, _)
\* io.TextIOWrapper with universal newlines: "\r\n" and "\r" become "\n"
TranslateFrom(s, i) ==
    IF i > Len(s) THEN <<>>
    ELSE IF s[i] = CR
         THEN IF i < Len(s) /\ s[i + 1] = NL
              THEN <<NL>> \o TranslateFrom(s, i + 2)
              ELSE <<NL>> \o TranslateFrom(s, i + 1)
         ELSE <<s[i]>> \o TranslateFrom(s, i + 1)

TranslateNewlines(s) == TranslateFrom(s, 1)

RECURSIVE SplitFrom(_, _, _)
\* str.splitlines(): cut after every line boundary ("\r\n" counts once), the
\* boundary dropped; a last piece without a boundary is kept when non-empty
SplitFrom(s, i, cur) ==
    IF i > Len(s)
    THEN IF cur = <<>> THEN <<>> ELSE <<cur>>
    ELSE IF s[i] \in LineBoundaries
         THEN IF s[i] = CR /\ i < Len(s) /\ s[i + 1] = NL
              THEN <<cur>> \o SplitFrom(s, i + 2, <<>>)
              ELSE <<cur>> \o SplitFrom(s, i + 1, <<>>)
         ELSE SplitFrom(s, i + 1, Append(cur, s[i]))

Splitlines(s) == SplitFrom(s, 1, <<>>)

\* the error text printed as it is, without the "Error: " prefix
ErrorReportBare(text) == text

\* f"Error: {text}"
ErrorReport(text) == ErrPrefix \o text

-----------------------------------------------------------------------------
(* The command line and argparse *)

Tokens == {"main", "feat", "-h", "-x"}

Argvs == UNION {[1..n -> Tokens] : n \in 0..MaxArgs}

IsOption(t) == t \in {"-h", "-x"}

\* the positional tokens of a command line, in order
Positionals(av) == SelectSeq(av, LAMBDA t : ~IsOption(t))

\* parse_args(): "help" when -h is met (help text, exit 0), "error" when a
\* positional is missing or a token is left over (usage error, exit 2)
ParseResult(av) ==
    IF \E i \in 1..Len(av) : av[i] = "-h" THEN "help"
    ELSE IF Len(Positionals(av)) # 2 \/ \E i \in 1..Len(av) : IsOption(av[i])
         THEN "error"
         ELSE "ok"

NoArgs == [base_branch |-> "", pr_branch |-> ""]

-----------------------------------------------------------------------------
(* The diff tool *)

Paths == {<<"a">>, <<"a", LS, "b">>}

Filler == <<"f">>

\* the path lists the tool may emit: the first MaxVaried free, the rest Filler
PathLists ==
    UNION {{[i \in 1..n |-> IF i <= Len(h) THEN h[i] ELSE Filler] :
                h \in [1..(IF n < MaxVaried THEN n ELSE MaxVaried) -> Paths]} :
           n \in 0..(Limit + MaxExtra)}

RECURSIVE GitStdoutFrom(_, _)
GitStdoutFrom(lines, i) ==
    IF i > Len(lines) THEN <<>>
    ELSE lines[i] \o <<NL>> \o GitStdoutFrom(lines, i + 1)

\* `git diff --name-only`: one changed path per output line
GitStdout(lines) == GitStdoutFrom(lines, 1)

GitErrTexts == {<<>>, <<"f", "a", "t", "a", "l">>}

ExcMsgs == {<<"E", "N", "O", "E", "N", "T">>}

\* kind "exit": the tool ran and exited with rc, having emitted lines and err
\* kind "launch_error": Popen raised OSError (tool not found)
\* kind "decode_error": the captured output is not text, communicate() raised
\* kind "hang": the tool never terminates
Outcomes ==
    [kind : {"exit"}, rc : {0, 1, 128}, lines : PathLists, err : GitErrTexts]
    \cup [kind : {"launch_error", "decode_error"}, rc : {0}, lines : {<<>>},
          err : ExcMsgs]
    \cup [kind : {"hang"}, rc : {0}, lines : {<<>>}, err : {<<>>}]

NoOutcome == [kind |-> "none", rc |-> 0, lines |-> <<>>, err |-> <<>>]

NoExc == [type |-> "none", msg |-> <<>>]

\* `except OSError`: a narrower clause
CatchesOSError(e) == e.type = "OSError"

\* the exception classes `except Exception` catches
ExceptionClasses == {"OSError", "UnicodeDecodeError"}

Catches(e) == e.type \in ExceptionClasses

NoPrev == [valid |-> FALSE, exit_code |-> NoCode, stdout |-> <<>>]

-----------------------------------------------------------------------------
(* The program *)

Init ==
    /\ argv \in Argvs
    /\ pc = "parse"
    /\ run = 1
    /\ outcome = NoOutcome
    /\ proc = "none"
    /\ nCalls = 0
    /\ nSpawns = 0
    /\ args = NoArgs
    /\ git_diff_output = <<>>
    /\ git_diff_error = <<>>
    /\ exc = NoExc
    /\ changed_files = <<>>
    /\ stdout = <<>>
    /\ stderr = <<>>
    /\ exit_code = NoCode
    /\ uncaught = FALSE
    /\ prev = NoPrev

\* parse_known_args()-like: a usage error is reported but main() goes on
ParseArgsLenient ==
    /\ pc = "parse"
    /\ CASE ParseResult(argv) = "help" ->
                /\ stdout' = Append(stdout, HelpText)
                /\ exit_code' = 0
                /\ pc' = "Terminated"
                /\ UNCHANGED <<args, stderr>>
         [] ParseResult(argv) = "error" ->
                /\ stderr' = Append(stderr, UsageError)
                /\ args' = [base_branch |-> "None", pr_branch |-> "None"]
                /\ pc' = "call"
                /\ UNCHANGED <<stdout, exit_code>>
         [] OTHER ->
                /\ args' = [base_branch |-> Positionals(argv)[1],
                            pr_branch |-> Positionals(argv)[2]]
                /\ pc' = "call"
                /\ UNCHANGED <<stdout, stderr, exit_code>>
    /\ UNCHANGED <<argv, run, outcome, proc, nCalls, nSpawns, git_diff_output,
                   git_diff_error, exc, changed_files, uncaught, prev>>

\* main(): parser.parse_args()
ParseArgs ==
    /\ pc = "parse"
    /\ CASE ParseResult(argv) = "ok" ->
                /\ args' = [base_branch |-> Positionals(argv)[1],
                            pr_branch |-> Positionals(argv)[2]]
                /\ pc' = "call"
                /\ UNCHANGED <<stdout, stderr, exit_code>>
         [] ParseResult(argv) = "help" ->
                /\ stdout' = Append(stdout, HelpText)
                /\ exit_code' = 0
                /\ pc' = "Terminated"
                /\ UNCHANGED <<args, stderr>>
         [] OTHER ->
                /\ stderr' = Append(stderr, UsageError)
                /\ exit_code' = ParserErrorCode
                /\ pc' = "Terminated"
                /\ UNCHANGED <<args, stdout>>
    /\ UNCHANGED <<argv, run, outcome, proc, nCalls, nSpawns, git_diff_output,
                   git_diff_error, exc, changed_files, uncaught, prev>>

\* get_changed_files(): subprocess.Popen([...]) inside the try block.  The
\* first invocation meets any outcome; the repeated one meets the same.
Popen ==
    /\ pc = "call"
    /\ IF run = 1 THEN outcome' \in Outcomes ELSE outcome' = outcome
    /\ nCalls' = nCalls + 1
    /\ nSpawns' = nSpawns + 1
    /\ IF outcome'.kind = "launch_error"
       THEN /\ exc' = [type |-> "OSError", msg |-> outcome'.err]
            /\ pc' = "except"
            /\ UNCHANGED proc
       ELSE /\ proc' = "running"
            /\ pc' = "communicate"
            /\ UNCHANGED exc
    /\ UNCHANGED <<argv, run, args, git_diff_output, git_diff_error,
                   changed_files, stdout, stderr, exit_code, uncaught, prev>>

\* the subprocess terminates; a hanging tool never does
GitExit ==
    /\ proc = "running"
    /\ outcome.kind # "hang"
    /\ proc' = "exited"
    /\ UNCHANGED <<argv, pc, run, outcome, nCalls, nSpawns, args,
                   git_diff_output, git_diff_error, exc, changed_files, stdout,
                   stderr, exit_code, uncaught, prev>>

\* git_diff_process.communicate(): returns once the subprocess has terminated
Communicate ==
    /\ pc = "communicate"
    /\ proc = "exited"
    /\ IF outcome.kind = "decode_error"
       THEN /\ exc' = [type |-> "UnicodeDecodeError", msg |-> outcome.err]
            /\ pc' = "except"
            /\ UNCHANGED <<git_diff_output, git_diff_error>>
       ELSE /\ git_diff_output' = TranslateNewlines(GitStdout(outcome.lines))
            /\ git_diff_error' = TranslateNewlines(outcome.err)
            /\ pc' = "returncode"
            /\ UNCHANGED exc
    /\ UNCHANGED <<argv, run, outcome, proc, nCalls, nSpawns, args,
                   changed_files, stdout, stderr, exit_code, uncaught, prev>>

\* the `return []` after the error report is missing
CheckReturncodeFallsThrough ==
    /\ pc = "returncode"
    /\ IF outcome.rc # 0
       THEN stdout' = Append(stdout, ErrorReport(git_diff_error))
       ELSE UNCHANGED stdout
    /\ changed_files' = Splitlines(git_diff_output)
    /\ pc' = "count"
    /\ UNCHANGED <<argv, run, outcome, proc, nCalls, nSpawns, args,
                   git_diff_output, git_diff_error, exc, stderr, exit_code,
                   uncaught, prev>>

\* `if git_diff_process.returncode != 0: print(...); return []`, else
\* `return git_diff_output.splitlines()`
CheckReturncode ==
    /\ pc = "returncode"
    /\ IF outcome.rc # 0
       THEN /\ stdout' = Append(stdout, ErrorReport(git_diff_error))
            /\ changed_files' = <<>>
       ELSE /\ changed_files' = Splitlines(git_diff_output)
            /\ UNCHANGED stdout
    /\ pc' = "count"
    /\ UNCHANGED <<argv, run, outcome, proc, nCalls, nSpawns, args,
                   git_diff_output, git_diff_error, exc, stderr, exit_code,
                   uncaught, prev>>

\* the clause reports the error and raises it again
ExceptClauseReraise ==
    /\ pc = "except"
    /\ stdout' = Append(stdout, ErrorReport(exc.msg))
    /\ uncaught' = TRUE
    /\ exit_code' = 1
    /\ pc' = "Terminated"
    /\ UNCHANGED <<argv, run, outcome, proc, nCalls, nSpawns, args,
                   git_diff_output, git_diff_error, exc, changed_files, stderr,
                   prev>>

\* the clause reports the error and launches the tool once more
ExceptClauseRetry ==
    /\ pc = "except"
    /\ stdout' = Append(stdout, ErrorReport(exc.msg))
    /\ exc' = NoExc
    /\ IF nSpawns < 2
       THEN /\ pc' = "call"
            /\ UNCHANGED changed_files
       ELSE /\ pc' = "count"
            /\ changed_files' = <<>>
    /\ UNCHANGED <<argv, run, outcome, proc, nCalls, nSpawns, args,
                   git_diff_output, git_diff_error, stderr, exit_code, uncaught,
                   prev>>

\* `except Exception as e: print(f"Error: {e}"); return []`; an exception the
\* clause does not catch leaves main() and the interpreter exits with code 1
ExceptClause ==
    /\ pc = "except"
    /\ IF Catches(exc)
       THEN /\ stdout' = Append(stdout, ErrorReport(exc.msg))
            /\ changed_files' = <<>>
            /\ exc' = NoExc
            /\ pc' = "count"
            /\ UNCHANGED <<exit_code, uncaught>>
       ELSE /\ uncaught' = TRUE
            /\ exit_code' = 1
            /\ pc' = "Terminated"
            /\ UNCHANGED <<stdout, changed_files, exc>>
    /\ UNCHANGED <<argv, run, outcome, proc, nCalls, nSpawns, args,
                   git_diff_output, git_diff_error, stderr, prev>>

\* `>=` in place of `>`
CountCheckAtLeast ==
    /\ pc = "count"
    /\ IF Len(changed_files) >= Limit
       THEN /\ stdout' = Append(stdout, OverLimitMsg)
            /\ pc' = "exit"
            /\ UNCHANGED exit_code
       ELSE /\ exit_code' = 0
            /\ pc' = "Terminated"
            /\ UNCHANGED stdout
    /\ UNCHANGED <<argv, run, outcome, proc, nCalls, nSpawns, args,
                   git_diff_output, git_diff_error, exc, changed_files, stderr,
                   uncaught, prev>>

\* the check is skipped when an earlier invocation left a result behind
CountCheckOnce ==
    /\ pc = "count"
    /\ IF ~prev.valid /\ Len(changed_files) > Limit
       THEN /\ stdout' = Append(stdout, OverLimitMsg)
            /\ pc' = "exit"
            /\ UNCHANGED exit_code
       ELSE /\ exit_code' = 0
            /\ pc' = "Terminated"
            /\ UNCHANGED stdout
    /\ UNCHANGED <<argv, run, outcome, proc, nCalls, nSpawns, args,
                   git_diff_output, git_diff_error, exc, changed_files, stderr,
                   uncaught, prev>>

\* main(): `if len(changed_files) > 20: print(...)`, else main() returns and
\* the process ends with code 0
CountCheck ==
    /\ pc = "count"
    /\ IF Len(changed_files) > Limit
       THEN /\ stdout' = Append(stdout, OverLimitMsg)
            /\ pc' = "exit"
            /\ UNCHANGED exit_code
       ELSE /\ exit_code' = 0
            /\ pc' = "Terminated"
            /\ UNCHANGED stdout
    /\ UNCHANGED <<argv, run, outcome, proc, nCalls, nSpawns, args,
                   git_diff_output, git_diff_error, exc, changed_files, stderr,
                   uncaught, prev>>

\* main(): sys.exit(1)
SysExit ==
    /\ pc = "exit"
    /\ exit_code' = 1
    /\ pc' = "Terminated"
    /\ UNCHANGED <<argv, run, outcome, proc, nCalls, nSpawns, args,
                   git_diff_output, git_diff_error, exc, changed_files, stdout,
                   stderr, uncaught, prev>>

\* the script is invoked again with the same command line on the same branch
\* state: a new process, nothing carried over but what the first one reported
Reinvoke ==
    /\ pc = "Terminated"
    /\ run = 1
    /\ prev' = [valid |-> TRUE, exit_code |-> exit_code, stdout |-> stdout]
    /\ run' = 2
    /\ pc' = "parse"
    /\ proc' = "none"
    /\ nCalls' = 0
    /\ nSpawns' = 0
    /\ args' = NoArgs
    /\ git_diff_output' = <<>>
    /\ git_diff_error' = <<>>
    /\ exc' = NoExc
    /\ changed_files' = <<>>
    /\ stdout' = <<>>
    /\ stderr' = <<>>
    /\ exit_code' = NoCode
    /\ uncaught' = FALSE
    /\ UNCHANGED <<argv, outcome>>

Next ==
    \/ ParseArgs
    \/ Popen
    \/ GitExit
    \/ Communicate
    \/ CheckReturncode
    \/ ExceptClause
    \/ CountCheck
    \/ SysExit
    \/ Reinvoke

Spec == Init /\ [][Next]_vars

\* a step of the process itself
ProgramStep ==
    \/ ParseArgs
    \/ Popen
    \/ Communicate
    \/ CheckReturncode
    \/ ExceptClause
    \/ CountCheck
    \/ SysExit

\* the process is single-threaded and takes its next step whenever it has
\* one; a tool that does not hang terminates
Fairness ==
    /\ WF_vars(ProgramStep)
    /\ WF_vars(GitExit)

LiveSpec == Spec /\ Fairness

-----------------------------------------------------------------------------
(* Vocabulary of the properties *)

Done == pc = "Terminated"

\* get_changed_files has returned in this run
Returned == pc \in {"count", "exit", "Terminated"} /\ nCalls > 0

\* the command line names both branches and nothing else
ValidArgs == Len(argv) = 2 /\ Positionals(argv) = argv

\* fewer than two positional tokens on the command line
MissingPositional == Len(Positionals(argv)) < 2

HelpRequested == \E i \in 1..Len(argv) : argv[i] = "-h"

ToolSucceeded == outcome.kind = "exit" /\ outcome.rc = 0

ToolExitedNonZero == outcome.kind = "exit" /\ outcome.rc # 0

ToolRaised == outcome.kind \in {"launch_error", "decode_error"}

ToolFailed == ToolExitedNonZero \/ ToolRaised

Printed(text) == \E i \in 1..Len(stdout) : stdout[i] = text

IsErrorLine(text) ==
    Len(text) >= Len(ErrPrefix) /\ SubSeq(text, 1, Len(ErrPrefix)) = ErrPrefix

ErrorPrinted == \E i \in 1..Len(stdout) : IsErrorLine(stdout[i])

\* the tool's output holds no line boundary other than its own newlines
PlainPaths ==
    \A i \in 1..Len(outcome.lines) :
        \A j \in 1..Len(outcome.lines[i]) :
            outcome.lines[i][j] \notin LineBoundaries

-----------------------------------------------------------------------------
(* C1 *)

\* C1: when the tool exits with code 0 having emitted L lines, the process
\* exit code is 1 iff L > 20 and 0 otherwise.  Violated: 20 emitted lines,
\* one of them a path holding U+2028, are counted as 21.
C1_ExitCodeByLineCount ==
    (Done /\ ValidArgs /\ ToolSucceeded) =>
        exit_code = (IF Len(outcome.lines) > Limit THEN 1 ELSE 0)

\* C1, on outputs where only the tool's newlines are line boundaries
C1_OnPlainPaths ==
    (Done /\ ValidArgs /\ ToolSucceeded /\ PlainPaths) =>
        exit_code = (IF Len(outcome.lines) > Limit THEN 1 ELSE 0)

-----------------------------------------------------------------------------
(* C2 *)

\* C2: whenever the diff tool fails (non-zero exit, or the invocation raises),
\* get_changed_files returns the empty list without raising and the program
\* exits with code 0.
C2_FailOpen ==
    /\ (ToolFailed /\ Returned) => (changed_files = <<>> /\ ~uncaught)
    /\ (ToolFailed /\ Done) => (Returned /\ exit_code = 0)

C2_Witness == Done /\ ToolRaised /\ exit_code = 0 /\ changed_files = <<>>

-----------------------------------------------------------------------------
(* C3 *)

\* C3 as stated: with a required positional argument missing the run ends
\* with a non-zero exit code and get_changed_files is never called.
\* Violated: `-h` alone ends the run in the parser with exit code 0.
C3_MissingArgNonZeroExit ==
    /\ MissingPositional => nCalls = 0
    /\ (MissingPositional /\ Done) => exit_code # 0
    /\ nCalls > 0 => ValidArgs

\* C3 amended: with a required positional argument missing the run ends in
\* the argument parser and get_changed_files is never called; the exit code
\* is the parser's error code 2 with a usage error on standard error, unless
\* a help option is given, and then the help text is printed and the exit
\* code is 0.  A call of get_changed_files is preceded by a successful parse
\* of both arguments.
C3_MissingArgEndsInParser ==
    /\ MissingPositional => (nCalls = 0 /\ nSpawns = 0)
    /\ (MissingPositional /\ Done) =>
            IF HelpRequested
            THEN exit_code = 0 /\ stdout = <<HelpText>> /\ stderr = <<>>
            ELSE exit_code = ParserErrorCode /\ stderr = <<UsageError>>
                 /\ stdout = <<>>
    /\ nCalls > 0 =>
            /\ ValidArgs
            /\ args = [base_branch |-> argv[1], pr_branch |-> argv[2]]

C3_Witness ==
    Done /\ MissingPositional /\ ~HelpRequested /\ Len(argv) = 1
    /\ exit_code = ParserErrorCode

-----------------------------------------------------------------------------
(* C4 *)

\* C4 as stated: a terminated run with valid arguments has written nothing,
\* or the tool's captured error text, or the over-limit message.  Violated:
\* the failure path writes "Error: " followed by the text.
C4_StdoutOneOfThree ==
    (Done /\ ValidArgs) =>
        \/ stdout = <<>>
        \/ stdout = <<outcome.err>>
        \/ stdout = <<OverLimitMsg>>

\* C4 amended: a terminated run with valid arguments has written exactly one
\* of: nothing (the diff succeeded and the returned list has at most 20
\* elements), one error report, "Error: " followed by the tool's captured
\* standard error or by the message of the invocation error (the diff
\* failed), or the over-limit message (the returned list has more than 20
\* elements); nothing else and no combination.
C4_StdoutOneOfThreeReports ==
    (Done /\ ValidArgs) =>
        \/ /\ stdout = <<>>
           /\ ToolSucceeded
           /\ Len(changed_files) <= Limit
        \/ /\ stdout = <<ErrPrefix \o outcome.err>>
           /\ ToolFailed
        \/ /\ stdout = <<OverLimitMsg>>
           /\ ToolSucceeded
           /\ Len(changed_files) > Limit

C4_Witness ==
    Done /\ ValidArgs /\ ToolExitedNonZero /\ outcome.err # <<>>
    /\ stdout = <<ErrPrefix \o outcome.err>>

-----------------------------------------------------------------------------
(* C5 *)

\* C5: the over-limit message is printed iff the run terminates with exit
\* code 1, and it is printed before termination; a run whose returned list
\* has at most 20 elements terminates with exit code 0 without the message.
C5_MessageIffExitOne ==
    /\ Done => (Printed(OverLimitMsg) <=> exit_code = 1)
    /\ (pc = "exit" \/ exit_code = 1) => Printed(OverLimitMsg)
    /\ Printed(OverLimitMsg) => pc \in {"exit", "Terminated"}
    /\ (Done /\ Returned /\ Len(changed_files) <= Limit) =>
            (exit_code = 0 /\ ~Printed(OverLimitMsg))

C5_Witness ==
    pc = "exit" /\ exit_code = NoCode /\ Printed(OverLimitMsg)
    /\ Len(changed_files) = Limit + 1

-----------------------------------------------------------------------------
(* C6 *)

\* C6: when the tool exits with code 0, get_changed_files returns exactly the
\* lines the tool emitted, in order, duplicates kept.  Violated: an emitted
\* line holding U+2028 comes back as two elements.
C6_ReturnsEmittedLines ==
    (Returned /\ ToolSucceeded) => changed_files = outcome.lines

\* C6, on outputs where only the tool's newlines are line boundaries
C6_OnPlainPaths ==
    (Returned /\ ToolSucceeded /\ PlainPaths) => changed_files = outcome.lines

-----------------------------------------------------------------------------
(* C7 *)

-----------------------------------------------------------------------------
(* C8 *)

\* C8: no exception escapes main(): whether the tool exits with 0, exits
\* non-zero, or launching or communicating raises, the run terminates with
\* exit code 0 or 1, and a failure has become a printed error report and
\* exit code 0.
C8_NoEscape ==
    /\ ~uncaught
    /\ pc # "except" => exc = NoExc
    /\ (Done /\ ValidArgs) => exit_code \in {0, 1}
    /\ (Done /\ ToolFailed) => (ErrorPrinted /\ exit_code = 0)

C8_Witness ==
    Done /\ outcome.kind = "decode_error" /\ ErrorPrinted /\ ~uncaught

-----------------------------------------------------------------------------
(* C9 *)

\* C9: the tool is invoked at most once in a run; the run stays in
\* communicate() while the subprocess runs; once the subprocess has
\* terminated the run eventually terminates; with a subprocess that never
\* terminates the run never terminates.
C9_OnceBlockingTerminating ==
    /\ [](nSpawns <= 1 /\ nCalls <= 1)
    /\ [](proc = "running" => pc = "communicate")
    /\ [](proc = "exited" => <>Done)
    /\ []((proc = "running" /\ outcome.kind = "hang") => [](~Done))

C9_Witness ==
    proc = "running" /\ outcome.kind = "hang" /\ pc = "communicate"
    /\ nSpawns = 1

-----------------------------------------------------------------------------
(* C10 *)

\* C10: exit code 1 is reached only through a successful diff: when the tool
\* exits non-zero its standard output is discarded, however long, and the
\* returned list is empty; a run that printed an error report prints no
\* over-limit message and does not exit with code 1.
C10_ExitOneOnlyAfterSuccess ==
    /\ (ToolExitedNonZero /\ Returned) => changed_files = <<>>
    /\ ErrorPrinted => (~Printed(OverLimitMsg) /\ exit_code # 1 /\ pc # "exit")
    /\ exit_code = 1 => ToolSucceeded

C10_Witness ==
    Done /\ ToolExitedNonZero /\ Len(outcome.lines) > Limit /\ ErrorPrinted
    /\ exit_code = 0

====
